---- MODULE Spec2Model ----
(***************************************************************************)
(* MCP server configuration manager (llm.py, main3.py).                    *)
(*                                                                         *)
(* Two state machines over one set of variables:                           *)
(*   SpecRender  llm.py: load_templates -> select_mcp_servers ->           *)
(*               launch_llm_with_config (ServerTemplate.render), and       *)
(*               main3.load_json_template on the same JSON source;         *)
(*   Spec        main3.py: deploy_config_to_app_locations and              *)
(*               install_all_to_project over a set of destination files.   *)
(*                                                                         *)
(* Text is modelled structurally.  A TOML text is a sequence of lines, a   *)
(* line is a record of the parts the code's startswith / strip / split     *)
(* tests look at.  A JSON text is the decoded value (objects keep their    *)
(* key order, as Python dicts do) plus the two properties of the text that *)
(* json.load discards: whether it is laid out as json.dumps(indent=2)      *)
(* lays it out, and whether it ends with a newline.                        *)
(***************************************************************************)
EXTENDS Integers, Sequences, FiniteSets, TLC

\* ------------------------------------------------------------------ bounds
\* Longest TOML source text, in lines.
MaxLines == 4

\* Longest existing TOML destination, in lines.
MaxDestLines == 3

\* Operations (deploys, installs) run in one session of the menu.
MaxRuns == 2

\* --------------------------------------------------------- ordered mappings
\* A Python dict: a sequence of [k, v] entries with distinct keys, in
\* insertion order.
Entry(key, val) == [k |-> key, v |-> val]

Keys(d) == [i \in 1..Len(d) |-> d[i].k]

KeySet(d) == {d[i].k : i \in 1..Len(d)}

Has(d, key) == key \in KeySet(d)

Get(d, key) == d[CHOOSE i \in 1..Len(d) : d[i].k = key].v

\* d[key] = val: an existing key keeps its position, a new key is appended.
Put(d, key, val) ==
    IF Has(d, key)
    THEN [i \in 1..Len(d) |-> IF d[i].k = key THEN Entry(key, val) ELSE d[i]]
    ELSE Append(d, Entry(key, val))

\* {k: v for k, v in d.items() if k != key}
Without(d, key) == SelectSeq(d, LAMBDA e : e.k # key)

RECURSIVE Update(_, _)
\* d.update(e), also {**d, **e}
Update(d, e) ==
    IF e = <<>> THEN d ELSE Update(Put(d, Head(e).k, Head(e).v), Tail(e))

\* The members of seq that are in set, in seq's order.
Restrict(seq, set) == SelectSeq(seq, LAMBDA x : x \in set)

Range(seq) == {seq[i] : i \in 1..Len(seq)}

NoDup(seq) == \A i, j \in 1..Len(seq) : seq[i] = seq[j] => i = j

\* --------------------------------------------------------------- JSON values
\* t: "obj" (o holds the entries) or "str" / "list" / "num" (s names the value).
Obj(entries) == [t |-> "obj", o |-> entries, s |-> ""]

Scalar(type, val) == [t |-> type, o |-> <<>>, s |-> val]

IsDict(v) == v.t = "obj"

\* ---------------------------------------------------------------- TOML lines
\* kind "blank": line.strip() is empty.
\* kind "text" : any other line that is no table header; text holds its
\*               parts, <<t>> for a line of the source named t and
\*               <<key, "=", form, value>> for a line the TOML writer formats.
\* kind "table": a table header  [<qual>.<key>.<name>.<sub>]  where qual and
\*               sub may be missing (""); ind: the line starts with whitespace.
Blank == [kind |-> "blank", ind |-> FALSE, qual |-> "", key |-> "", name |-> "",
          sub |-> "", text |-> <<>>]

Text(t) == [kind |-> "text", ind |-> FALSE, qual |-> "", key |-> "", name |-> "",
            sub |-> "", text |-> <<t>>]

KeyValue(key, form, val) ==
    [kind |-> "text", ind |-> FALSE, qual |-> "", key |-> "", name |-> "",
     sub |-> "", text |-> <<key, "=", form, val>>]

Table(q, key, n, s) == [kind |-> "table", ind |-> FALSE, qual |-> q, key |-> key,
                        name |-> n, sub |-> s, text |-> <<>>]

\* The same header with leading whitespace.
Indented(line) == [line EXCEPT !.ind = TRUE]

\* line.strip() is non-empty
NonBlank(line) == line.kind # "blank"

\* line.strip().startswith(f"[{os}.mcp_servers.") or ...(f"[{os}.mcpServers.")
StartsServerBlock(line, os) ==
    /\ line.kind = "table"
    /\ line.qual = os
    /\ line.key \in {"mcp_servers", "mcpServers"}

\* line.strip().startswith(f"[{os}.")
StartsWithOs(line, os) == line.kind = "table" /\ line.qual = os

RECURSIVE StripTrailingBlank(_)
\* while lines and not lines[-1].strip(): lines.pop()
StripTrailingBlank(lines) ==
    IF lines # <<>> /\ ~NonBlank(lines[Len(lines)])
    THEN StripTrailingBlank(SubSeq(lines, 1, Len(lines) - 1))
    ELSE lines

\* "\n".join(lines) + "\n", as the lines of the resulting text: joining no
\* lines gives the text "\n", which is one empty line.
JoinLines(lines) == IF lines = <<>> THEN <<Blank>> ELSE lines

\* --------------------------------------------------------------------- texts
\* The content of a file.  fmt "absent": no such file; "garbage": text that
\* json.load rejects; "json": json holds the decoded value, canon says the text
\* is laid out as json.dumps(indent=2) lays it out, nl says it ends with a
\* newline; "toml": lines holds the text's lines.
Absent == [fmt |-> "absent", lines |-> <<>>, json |-> Obj(<<>>), canon |-> TRUE,
           nl |-> TRUE]

Garbage == [fmt |-> "garbage", lines |-> <<>>, json |-> Obj(<<>>), canon |-> FALSE,
            nl |-> TRUE]

TomlDoc(lines) == [fmt |-> "toml", lines |-> lines, json |-> Obj(<<>>),
                   canon |-> TRUE, nl |-> TRUE]

JsonDoc(val, canon, nl) == [fmt |-> "json", lines |-> <<>>, json |-> val,
                            canon |-> canon, nl |-> nl]

\* ----------------------------------------------------------- llm.py: loading
None == "None"

\* A ServerTemplate, or the ValueError the loader raised instead.
ServerTemplate(format, os, order, blocks, meta, ckey, header) ==
    [ok |-> TRUE, error |-> "", format |-> format, os_mode |-> os,
     server_order |-> order, server_blocks |-> blocks, metadata |-> meta,
     container_key |-> ckey, header_lines |-> header]

NoTemplate(err) ==
    [ok |-> FALSE, error |-> err, format |-> "", os_mode |-> "",
     server_order |-> <<>>, server_blocks |-> <<>>, metadata |-> <<>>,
     container_key |-> None, header_lines |-> <<>>]

\* blocks[name] = block
SetBlock(blocks, name, block) ==
    [n \in DOMAIN blocks \cup {name} |-> IF n = name THEN block ELSE blocks[n]]

\* other_os = "wsl" if os_mode == "windows" else "windows"
OtherOs(os) == IF os = "windows" THEN "wsl" ELSE "windows"

\* Mutant of ContainerAliases: the first two aliases tried in the other order.
ContainerAliasesSwapped == <<"mcp_servers", "mcpServers", "mcp">>

\* for key in ("mcpServers", "mcp_servers", "mcp")
ContainerAliases == <<"mcpServers", "mcp_servers", "mcp">>

\* The first alias that is a key of d, None when there is none.
FindContainerKey(d) ==
    IF \E i \in 1..Len(ContainerAliases) : Has(d, ContainerAliases[i])
    THEN ContainerAliases[CHOOSE i \in 1..Len(ContainerAliases) :
             /\ Has(d, ContainerAliases[i])
             /\ \A j \in 1..(i - 1) : ~Has(d, ContainerAliases[j])]
    ELSE None

\* The loop state of load_toml_template before the first line.
TomlStart == [server_order |-> <<>>, server_blocks |-> <<>>,
              current_name |-> None, current_block |-> <<>>]

\* if current_name is not None: server_blocks[current_name] = current_block
Flush(st) ==
    IF st.current_name # None
    THEN SetBlock(st.server_blocks, st.current_name, st.current_block)
    ELSE st.server_blocks

\* Mutant of TomlOpenBlock: the name is appended to server_order without the
\* test "if current_name not in server_order".
TomlOpenBlockAlwaysNew(st, line) ==
    [server_order |-> Append(st.server_order, line.name),
     server_blocks |-> Flush(st),
     current_name |-> line.name,
     current_block |-> <<line>>]

\* The branch of the loop body taken for a line that starts a server block of
\* the OS loaded for.
TomlOpenBlock(st, line) ==
    LET flushed == Flush(st)
        name == line.name
    IN  IF name \notin Range(st.server_order)
        THEN [server_order |-> Append(st.server_order, name),
              server_blocks |-> flushed,
              current_name |-> name,
              current_block |-> <<line>>]
        ELSE LET blocks == SetBlock(flushed, name, Append(flushed[name], line))
             IN  [server_order |-> st.server_order,
                  server_blocks |-> blocks,
                  current_name |-> name,
                  current_block |-> blocks[name]]

\* Mutant of TomlInsideBlock: a block start of the other OS does not end the
\* open block.
TomlInsideBlockKeepsOther(st, line, os) ==
    [st EXCEPT !.current_block = Append(st.current_block, line)]

\* The branch taken inside a block for a line that starts no block of this OS.
TomlInsideBlock(st, line, os) ==
    IF StartsServerBlock(line, OtherOs(os))
    THEN [st EXCEPT !.server_blocks = Flush(st),
                    !.current_name = None,
                    !.current_block = <<>>]
    ELSE [st EXCEPT !.current_block = Append(st.current_block, line)]

\* One iteration of the loop over the file's lines.
TomlStep(st, line, os) ==
    IF StartsServerBlock(line, os) THEN TomlOpenBlock(st, line)
    ELSE IF st.current_name # None THEN TomlInsideBlock(st, line, os)
    ELSE st

RECURSIVE TomlLoop(_, _, _)
TomlLoop(st, lines, os) ==
    IF lines = <<>> THEN st
    ELSE TomlLoop(TomlStep(st, Head(lines), os), Tail(lines), os)

\* llm.load_toml_template: header_lines is created empty and never appended to.
LoadTomlTemplate(lines, os) ==
    LET st == TomlLoop(TomlStart, lines, os)
    IN  ServerTemplate("toml", os, st.server_order, Flush(st), <<>>, None, <<>>)

RECURSIVE MergeTopLevel(_, _)
\* for key, value in data.items():
\*     if key not in ("windows", "wsl"): metadata[key] = value
MergeTopLevel(meta, data) ==
    IF data = <<>> THEN meta
    ELSE MergeTopLevel(IF Head(data).k \in {"windows", "wsl"} THEN meta
                       ELSE Put(meta, Head(data).k, Head(data).v),
                       Tail(data))

\* Python's "key in v" on a decoded JSON value: membership of a dict's keys,
\* of a list's elements (a list here holds the one string v.s), a substring
\* test on a string (no string here holds a key as a proper substring), and a
\* TypeError on a number or null.
In(key, v) ==
    CASE v.t = "obj" -> IF Has(v.o, key) THEN "yes" ELSE "no"
      [] v.t \in {"str", "list"} -> IF v.s = key THEN "yes" ELSE "no"
      [] OTHER -> "TypeError"

\* for key in ("mcpServers", "mcp_servers", "mcp"): if key in v: ... break
\* on any decoded JSON value: the alias found, None, or "TypeError".
FindAlias(v) ==
    CASE v.t = "obj" -> FindContainerKey(v.o)
      [] v.t \in {"str", "list"} ->
            IF \E i \in 1..Len(ContainerAliases) : ContainerAliases[i] = v.s
            THEN v.s ELSE None
      [] OTHER -> "TypeError"

\* llm.load_json_template on the decoded text.  A ValueError is the loader's
\* own; "TypeError" is what "in" or a subscript raises on a value that is no
\* dict.
LoadJsonTemplate(val, os) ==
    IF In(os, val) = "TypeError" THEN NoTemplate("TypeError")
    ELSE IF In(os, val) = "no" THEN NoTemplate("MissingOs")
    ELSE IF ~IsDict(val) THEN NoTemplate("TypeError")
    ELSE LET os_data == Get(val.o, os)
         IN  IF FindAlias(os_data) = "TypeError" THEN NoTemplate("TypeError")
             ELSE IF FindAlias(os_data) = None THEN NoTemplate("MissingContainer")
             ELSE IF ~IsDict(os_data) THEN NoTemplate("TypeError")
             ELSE LET ckey == FindContainerKey(os_data.o)
                  IN  IF ckey = None THEN NoTemplate("MissingContainer")
                      ELSE LET servers == Get(os_data.o, ckey)
                           IN  IF ~IsDict(servers) THEN NoTemplate("ContainerType")
                               ELSE ServerTemplate("json", os, Keys(servers.o),
                                        [n \in KeySet(servers.o) |-> Get(servers.o, n)],
                                        MergeTopLevel(Without(os_data.o, ckey), val.o),
                                        ckey, <<>>)

\* The loader load_templates picks by the file's suffix.  A text json.load
\* rejects raises json.JSONDecodeError, a ValueError.
LoadTemplate(src, os) ==
    CASE src.fmt = "toml" -> LoadTomlTemplate(src.lines, os)
      [] src.fmt = "json" -> LoadJsonTemplate(src.json, os)
      [] OTHER -> NoTemplate("FormatError")

\* ---------------------------------------------------------- llm.py: rendering
\* ordered_names = [name for name in self.server_order if name in selected_servers]
OrderedNames(tpl, selected) == Restrict(tpl.server_order, Range(selected))

\* line.replace(f"[{os_mode}.", "[", 1) on the lines that start with it
StripOs(line, os) == IF StartsWithOs(line, os) THEN [line EXCEPT !.qual = ""] ELSE line

\* The lines render appends for one block.
RenderBlock(block, os) ==
    [i \in 1..Len(block) |-> StripOs(block[i], os)]
        \o (IF block # <<>> /\ NonBlank(block[Len(block)]) THEN <<Blank>> ELSE <<>>)

RECURSIVE RenderBlocks(_, _, _)
RenderBlocks(names, blocks, os) ==
    IF names = <<>> THEN <<>>
    ELSE RenderBlock(blocks[Head(names)], os) \o RenderBlocks(Tail(names), blocks, os)

\* if self.header_lines: lines.extend(...); a blank line after a non-blank last
RenderHeader(header) ==
    IF header = <<>> THEN <<>>
    ELSE header \o (IF NonBlank(header[Len(header)]) THEN <<Blank>> ELSE <<>>)

\* ServerTemplate.render, format "toml"
RenderToml(tpl, selected) ==
    TomlDoc(JoinLines(StripTrailingBlank(
        RenderHeader(tpl.header_lines)
            \o RenderBlocks(OrderedNames(tpl, selected), tpl.server_blocks, tpl.os_mode))))

\* ServerTemplate.render, format "json": json.dumps(payload, indent=2) + "\n"
RenderJson(tpl, selected) ==
    LET names == OrderedNames(tpl, selected)
        container == [i \in 1..Len(names) |-> Entry(names[i], tpl.server_blocks[names[i]])]
    IN  JsonDoc(Obj(Put(tpl.metadata, tpl.container_key, Obj(container))), TRUE, TRUE)

Render(tpl, selected) ==
    IF tpl.format = "json" THEN RenderJson(tpl, selected) ELSE RenderToml(tpl, selected)

\* Mutant of TemplateAfterRender: the payload and the lines are the template's
\* own objects, not copies.
TemplateAfterRenderInPlace(tpl, selected) ==
    IF tpl.format = "json"
    THEN [tpl EXCEPT !.metadata = RenderJson(tpl, selected).json.o]
    ELSE [tpl EXCEPT !.header_lines = RenderToml(tpl, selected).lines]

\* The template once render has returned: payload is copy.deepcopy(metadata),
\* each block goes into it as a deep copy and lines is a new list, so the
\* objects the template holds are the ones it held.
TemplateAfterRender(tpl, selected) == tpl

\* The template launch_llm_with_config builds: server_blocks and server_order
\* cut down to the selected servers.  Its metadata, header_lines and blocks are
\* the selected template's own objects.
FilteredTemplate(tpl, selected) ==
    [tpl EXCEPT
        !.server_order = Restrict(tpl.server_order, Range(selected)),
        !.server_blocks = [n \in Range(selected) \cap DOMAIN tpl.server_blocks |->
                              tpl.server_blocks[n]]]

\* ---------------------------------------------------------- main3.py: loading
\* What main3.load_json_template returns, the pair (LLMTemplate, servers), or
\* the ValueError it raised instead.
LLMTemplate(format, meta, ckey, header, servers) ==
    [ok |-> TRUE, error |-> "", format |-> format, metadata |-> meta,
     container_key |-> ckey, header_lines |-> header, servers |-> servers]

NoLLMTemplate(err) ==
    [ok |-> FALSE, error |-> err, format |-> "", metadata |-> <<>>,
     container_key |-> None, header_lines |-> <<>>, servers |-> <<>>]

\* main3.load_json_template on the decoded text.
LoadJsonTemplate3(val) ==
    IF FindAlias(val) = "TypeError" THEN NoLLMTemplate("TypeError")
    ELSE IF FindAlias(val) = None THEN NoLLMTemplate("MissingContainer")
    ELSE IF ~IsDict(val) THEN NoLLMTemplate("TypeError")
    ELSE LET ckey == FindContainerKey(val.o)
         IN  IF ckey = None THEN NoLLMTemplate("MissingContainer")
             ELSE IF ~IsDict(Get(val.o, ckey)) THEN NoLLMTemplate("ContainerType")
             ELSE LLMTemplate("json", Without(val.o, ckey), ckey, <<>>,
                              Get(val.o, ckey).o)

\* main3.load_toml_template: line.startswith("[mcp_servers."), on the raw line
StartsBlock3(line) ==
    line.kind = "table" /\ ~line.ind /\ line.qual = "" /\ line.key = "mcp_servers"

\* line[len("[mcp_servers."):].rstrip("]"): everything up to the bracket
BlockName3(line) ==
    IF line.sub = "" THEN line.name ELSE line.name \o "." \o line.sub

\* main3.load_toml_template before the first line.
TomlStart3 == [header_lines |-> <<>>, server_blocks |-> <<>>,
               current_name |-> None, current_block |-> <<>>]

\* server_blocks[current_name] = current_block
Flush3(st) ==
    IF st.current_name # None
    THEN Put(st.server_blocks, st.current_name, st.current_block)
    ELSE st.server_blocks

\* One iteration of main3.load_toml_template's loop.
TomlStep3(st, line) ==
    IF StartsBlock3(line)
    THEN [st EXCEPT !.server_blocks = Flush3(st),
                    !.current_name = BlockName3(line),
                    !.current_block = <<line>>]
    ELSE IF st.current_name = None
    THEN [st EXCEPT !.header_lines = Append(st.header_lines, line)]
    ELSE [st EXCEPT !.current_block = Append(st.current_block, line)]

RECURSIVE TomlLoop3(_, _)
TomlLoop3(st, lines) ==
    IF lines = <<>> THEN st ELSE TomlLoop3(TomlStep3(st, Head(lines)), Tail(lines))

\* main3.load_toml_template: the template and the blocks by name.
LoadTomlTemplate3(lines) ==
    LET st == TomlLoop3(TomlStart3, lines)
    IN  LLMTemplate("toml", <<>>, None, StripTrailingBlank(st.header_lines), Flush3(st))

\* --------------------------------------------------------- main3.py: catalog
\* MCP_SERVERS_DB in iteration order (categories, then the servers of each),
\* each server with its "config".  The order is not the alphabetical one.
MCP_SERVERS_DB ==
    << Entry("b", Obj(<<Entry("type", Scalar("str", "http")),
                        Entry("url", Scalar("str", "https://b"))>>)),
       Entry("a", Obj(<<Entry("type", Scalar("str", "stdio")),
                        Entry("command", Scalar("str", "npx")),
                        Entry("args", Scalar("list", "a-args"))>>)) >>

\* config = server_info["config"].copy(); if "type" in config: del config["type"]
WithoutType(config) == Obj(Without(config.o, "type"))

\* new_servers: the selected servers of the catalog, in catalog order.
NewServers(selected) ==
    LET chosen == SelectSeq(MCP_SERVERS_DB, LAMBDA e : e.k \in selected)
    IN  [i \in 1..Len(chosen) |-> Entry(chosen[i].k, WithoutType(chosen[i].v))]

\* ------------------------------------------------------ main3.py: TOML writer
\* Python's order of the server names as strings.
Alphabetical == <<"a", "b", "c">>

\* sorted(new_servers.keys())
SortedKeys(d) == Restrict(Alphabetical, KeySet(d))

\* line.strip().startswith("[mcp_servers.")
StartsMcpTable(line) ==
    line.kind = "table" /\ line.qual = "" /\ line.key = "mcp_servers"

RECURSIVE PrefixLines(_)
\* for line in lines: if stripped.startswith("[mcp_servers."): break
PrefixLines(lines) ==
    IF lines = <<>> \/ StartsMcpTable(Head(lines)) THEN <<>>
    ELSE <<Head(lines)>> \o PrefixLines(Tail(lines))

\* Mutant of ExtractTomlPrefixBeforeMcp: the prefix without the rstrip().
ExtractTomlPrefixKeepsBlank(file) ==
    IF file.fmt = "absent" THEN <<>> ELSE PrefixLines(file.lines)

\* _extract_toml_prefix_before_mcp: "\n".join(prefix_lines).rstrip(), as lines
ExtractTomlPrefixBeforeMcp(file) ==
    IF file.fmt = "absent" THEN <<>> ELSE StripTrailingBlank(PrefixLines(file.lines))

\* One key of a server's config as the TOML line written for it.
TomlValueLine(key, val) ==
    CASE key = "args" /\ val.t = "list" -> KeyValue(key, "list", val.s)
      [] val.t = "str" -> KeyValue(key, "quoted", val.s)
      [] val.t = "bool" -> KeyValue(key, "bool", val.s)
      [] OTHER -> KeyValue(key, "plain", val.s)

\* block_lines for one server: its [mcp_servers.<name>] header, then its keys
TomlServerBlock(name, config) ==
    <<Table("", "mcp_servers", name, "")>>
        \o (IF IsDict(config)
            THEN [i \in 1..Len(config.o) |-> TomlValueLine(config.o[i].k, config.o[i].v)]
            ELSE <<>>)

RECURSIVE JoinBlocks(_, _)
\* "\n\n".join(server_blocks) over the names in the order given
JoinBlocks(names, new_servers) ==
    IF names = <<>> THEN <<>>
    ELSE TomlServerBlock(Head(names), Get(new_servers, Head(names)))
            \o (IF Tail(names) = <<>> THEN <<>> ELSE <<Blank>>)
            \o JoinBlocks(Tail(names), new_servers)

\* _write_toml_mcp_servers: the text written to target_path
WriteTomlMcpServers(file, new_servers) ==
    LET prefix == ExtractTomlPrefixBeforeMcp(file)
        blocks == JoinBlocks(SortedKeys(new_servers), new_servers)
    IN  TomlDoc(JoinLines(
            prefix \o (IF prefix # <<>> /\ blocks # <<>> THEN <<Blank>> ELSE <<>>)
                   \o blocks))

\* ------------------------------------------------- main3.py: JSON destinations
\* What one destination's try block did: ok (the tick was printed) or not (the
\* except clause printed the cross), and the file's content afterwards.
Outcome(ok, file) == [ok |-> ok, file |-> file]

\* Mutant of ContainerKeyOrDefault: the last alias as the default.
ContainerKeyOrLastAlias(data) ==
    IF FindContainerKey(data) = None THEN "mcp" ELSE FindContainerKey(data)

\* container_key: the first alias in data, else "mcpServers"
ContainerKeyOrDefault(data) ==
    IF FindContainerKey(data) = None THEN "mcpServers" ELSE FindContainerKey(data)

\* From "Find or create container key" to the json.dump: data[container_key]
\* .update(new_servers) raises when the container is no dict, and then
\* nothing is written.
MergeAndWriteJson(file, data, new_servers) ==
    LET ckey == ContainerKeyOrDefault(data)
        data1 == IF Has(data, ckey) THEN data ELSE Put(data, ckey, Obj(<<>>))
    IN  IF ~IsDict(Get(data1, ckey)) THEN Outcome(FALSE, file)
        ELSE Outcome(TRUE,
                JsonDoc(Obj(Put(data1, ckey,
                                Obj(Update(Get(data1, ckey).o, new_servers)))),
                        TRUE, FALSE))

\* deploy_config_to_app_locations, the else branch "For JSON files": a text
\* json.load rejects raises into the except clause of the path.
DeployJson(file, new_servers) ==
    CASE file.fmt = "garbage" -> Outcome(FALSE, file)
      [] file.fmt = "absent" -> MergeAndWriteJson(file, <<>>, new_servers)
      [] OTHER -> MergeAndWriteJson(file, file.json.o, new_servers)

\* install_all_to_project, the else branch "JSON format": a text json.load
\* rejects is read as {}.
InstallJson(file, new_servers) ==
    CASE file.fmt = "garbage" -> MergeAndWriteJson(file, <<>>, new_servers)
      [] file.fmt = "absent" -> MergeAndWriteJson(file, <<>>, new_servers)
      [] OTHER -> MergeAndWriteJson(file, file.json.o, new_servers)

\* apply_servers_to_cli for the file servers/ holds for the CLI: only a .json
\* file is looked at; it is left alone when it cannot be read or has no
\* container key, or when its container is no dict.
ApplyServersToCli(cli, file, new_servers) ==
    CASE cli = "codex_config.toml" -> file
      [] file.fmt # "json" -> file
      [] FindContainerKey(file.json.o) = None -> file
      [] OTHER -> MergeAndWriteJson(file, file.json.o, new_servers).file

\* ------------------------------------------------------- main3.py: locations
\* Three of the CLIs of APP_LOCATIONS_TEMPLATE: one with a list of two paths
\* under "windows", one whose project path ends in neither .json nor .toml,
\* one with a TOML config.
CliFilenames == {"amazonq_mcp.json", "cline_mcp_settings.json", "codex_config.toml"}

\* APP_LOCATIONS_TEMPLATE[location_type][cli_filename], a single path made a list
AppLocations(location_type, cli) ==
    CASE location_type = "windows" /\ cli = "amazonq_mcp.json" ->
            <<"aws/amazonq/mcp.json", "aitk/mcp.json">>
      [] location_type = "windows" /\ cli = "cline_mcp_settings.json" ->
            <<"appdata/cline_mcp_settings.json">>
      [] location_type = "windows" /\ cli = "codex_config.toml" ->
            <<"home/codex/config.toml">>
      [] location_type = "project" /\ cli = "amazonq_mcp.json" ->
            <<"project/amazonq/mcp.json">>
      [] location_type = "project" /\ cli = "cline_mcp_settings.json" ->
            <<"project/.clinerules">>
      [] location_type = "project" /\ cli = "codex_config.toml" ->
            <<"project/codex/config.toml">>

\* locations.items() of the "project" class, in the template's order
ProjectLocations ==
    <<"project/amazonq/mcp.json", "project/.clinerules", "project/codex/config.toml">>

Paths == {"aws/amazonq/mcp.json", "aitk/mcp.json", "appdata/cline_mcp_settings.json",
          "home/codex/config.toml", "project/amazonq/mcp.json", "project/.clinerules",
          "project/codex/config.toml"}

\* target_path.suffix.lower()
Suffix(path) ==
    CASE path \in {"home/codex/config.toml", "project/codex/config.toml"} -> ".toml"
      [] path = "project/.clinerules" -> ""
      [] OTHER -> ".json"

\* target_path.suffix.lower() == ".toml"
IsTomlPath(path) == Suffix(path) = ".toml"

\* Mutant of DeployPaths: of a list of paths only the first is visited.
DeployPathsFirstOfList(cli) ==
    <<Head(AppLocations("windows", cli))>> \o <<Head(AppLocations("project", cli))>>

\* The paths one call of deploy_config_to_app_locations visits, in order:
\* location_types defaults to ["windows", "project"].
DeployPaths(cli) == AppLocations("windows", cli) \o AppLocations("project", cli)

\* The body of the try block of deploy_config_to_app_locations for one path.
DeployOne(path, file, new_servers) ==
    IF IsTomlPath(path) THEN Outcome(TRUE, WriteTomlMcpServers(file, new_servers))
    ELSE DeployJson(file, new_servers)

\* The body of the try block of install_all_to_project for one path.
InstallOne(path, file, new_servers) ==
    IF IsTomlPath(path) THEN Outcome(TRUE, WriteTomlMcpServers(file, new_servers))
    ELSE InstallJson(file, new_servers)

\* ------------------------------------------------------------ source universe
\* Server names; "c" is a server of the catalog that the sources below do not
\* all hold.
ServerNames == {"a", "b", "c"}

\* A server's JSON definition.
ServerConfig(tag) == Obj(<<Entry("command", Scalar("str", tag))>>)

OsModes == {"windows", "wsl"}

\* The lines a TOML source is made of.
TomlLines ==
    { Table("windows", "mcp_servers", "a", ""),
      Table("windows", "mcp_servers", "b", ""),
      Table("windows", "mcp_servers", "a", "env"),
      Table("wsl", "mcp_servers", "a", ""),
      Table("wsl", "mcpServers", "b", ""),
      Text("k1"),
      Blank }

SeqsUpTo(S, n) == UNION {[1..m -> S] : m \in 0..n}

TomlSources == {TomlDoc(lines) : lines \in SeqsUpTo(TomlLines, MaxLines)}

TopKeys == {"mcpServers", "mcp_servers", "mcp", "other"}

\* Top-level key orders of a JSON object: up to three distinct keys.
KeyLayouts == {ks \in SeqsUpTo(TopKeys, 3) : NoDup(ks)}

\* The value a JSON source holds under a top-level key, in two variants.
ValueUnder(key, variant) ==
    CASE key = "other" -> Scalar("num", "5")
      [] key = "mcpServers" ->
            IF variant = 1
            THEN Obj(<<Entry("a", ServerConfig("a1")), Entry("b", ServerConfig("b1"))>>)
            ELSE Obj(<<Entry("b", ServerConfig("b1")), Entry("a", ServerConfig("a1"))>>)
      [] key = "mcp_servers" ->
            IF variant = 1
            THEN Obj(<<Entry("b", ServerConfig("b2"))>>)
            ELSE Scalar("str", "x")
      [] key = "mcp" ->
            IF variant = 1 THEN Obj(<<>>) ELSE Obj(<<Entry("c", ServerConfig("c3"))>>)

FlatObjects ==
    { Obj([i \in 1..Len(ks) |-> Entry(ks[i], ValueUnder(ks[i], variant))]) :
        ks \in KeyLayouts, variant \in {1, 2} }

\* llm.py keeps one section per OS in a JSON source; main3.py keeps the
\* container at the top level.
WslOnly == Obj(<<Entry("mcp", Obj(<<Entry("c", ServerConfig("c3"))>>))>>)

Wrapped(flat) ==
    { flat,
      Obj(<<Entry("windows", flat), Entry("wsl", WslOnly)>>),
      Obj(<<Entry("other", Scalar("num", "7")), Entry("wsl", flat),
            Entry("windows", WslOnly)>>),
      Obj(<<Entry("windows", flat), Entry("mcpServers", Scalar("num", "9"))>>) }

\* Valid JSON whose top level, or whose OS section, is no object.
NonObjects ==
    { Scalar("num", "5"), Scalar("null", ""), Scalar("list", "x"),
      Scalar("list", "windows"), Scalar("str", "mcp"), Scalar("str", "x") }

OddSources ==
    NonObjects \cup {Obj(<<Entry("windows", v), Entry("wsl", v)>>) : v \in NonObjects}
               \cup {Obj(<<Entry("windows", Scalar("list", "mcp")),
                           Entry("wsl", Scalar("list", "mcp"))>>)}

JsonSources ==
    {JsonDoc(val, canon, TRUE) :
        val \in UNION {Wrapped(flat) : flat \in FlatObjects}, canon \in BOOLEAN}
    \cup {JsonDoc(val, TRUE, TRUE) : val \in OddSources}

\* config["selected_mcp_servers"] = list(selected_servers): a list in the
\* order the set happens to iterate in.
SelectionLists ==
    { <<>>, <<"a">>, <<"b">>, <<"c">>, <<"a", "b">>, <<"b", "a">>, <<"c", "a">>,
      <<"a", "b", "c">> }

NoDoc == [fmt |-> "none", lines |-> <<>>, json |-> Obj(<<>>), canon |-> TRUE,
          nl |-> TRUE]

\* ------------------------------------------------------------------- state
VARIABLES
    source,                 \* the template file in servers/
    os_mode,                \* the OS the template is loaded for
    template,               \* llm.py: the loaded ServerTemplate
    llm3,                   \* main3.py: what load_json_template returned
    selected_mcp_servers,   \* llm.py: config["selected_mcp_servers"]
    document,               \* llm.py: the text launch_llm_with_config renders
    pc,                     \* llm.py: where the program is
    fault,                  \* llm.py: the I/O step of the launch that fails
    outputs,                \* llm.py: generated/<file>, app and project configs
    reports,                \* llm.py: the copy outcomes the launch printed
    saved,                  \* history: the selection last saved while each
                            \* LLM (the file for an OS) was the selected one
    files,                  \* main3.py: the content of every destination path
    servers_dir,            \* main3.py: servers/<cli>, the JSON file of each CLI
    selected_llm,           \* main3.py: config["selected_llm"]
    selections,             \* main3.py: selections/<cli>.json, per CLI
    op,                     \* main3.py: the operation started last
    selected_servers,       \* main3.py: the selection that operation deploys
    new_servers,            \* main3.py: the server configs it built from the DB
    targets,                \* history: the paths its loop was to visit
    queue,                  \* main3.py: the paths its loop has yet to visit
    results,                \* main3.py: the tick or cross it printed per path
    before,                 \* history: files when the operation started
    again,                  \* history: the operation is a deploy to the paths and
                            \* of the selection of the deploy run just before it
    selector,               \* main2_fixed.py: display_server_selector's locals
    runs                    \* history: operations started so far

launchVars == <<fault, outputs, reports>>

renderVars == <<source, os_mode, template, llm3, selected_mcp_servers, document, pc,
                launchVars, saved>>

deployVars == <<files, servers_dir, selected_llm, selections, op, selected_servers,
                new_servers, targets, queue, results, before, again, selector, runs>>

vars == <<renderVars, deployVars>>

\* ------------------------------------------------ main3.py: selection store
\* selections/<cli>.json by what load_selections can tell apart:
\*   "absent"     no such file
\*   "unreadable" open() raises
\*   "garbage"    json.load raises
\*   "nodict"     JSON that is no object (.get raises AttributeError)
\*   "nokey"      an object without "selected_servers"
\*   "list"       "selected_servers" is a list of strings, the items
\*   "nested"     "selected_servers" is a list of lists (set() raises TypeError)
\*   "number"     "selected_servers" is a number or null (set() raises TypeError)
\*   "string"     "selected_servers" is a string; the items are its characters
\*   "dict"       "selected_servers" is an object; the items are its keys
SelectionFile(shape, items) == [shape |-> shape, items |-> items]

NoSelectionFile == SelectionFile("absent", {})

\* save_selections: the file is rewritten with the sorted list of the set.
SavedSelections(selected) == SelectionFile("list", selected)

\* load_selections: set(data.get("selected_servers", [])), and set() after
\* any exception.
LoadSelections(file) ==
    IF file.shape \in {"list", "string", "dict"} THEN file.items ELSE {}

\* The destination files of a fresh machine: none exists.
NoFiles == [p \in Paths |-> Absent]

\* main2_fixed.py: no selector on the screen.
SelectorClosed ==
    [open |-> FALSE, left |-> "none", cli |-> None, loaded |-> {}, scroll_pos |-> 0,
     selected_indices |-> {}, iteration |-> 0]

DeployIdle ==
    /\ files = NoFiles
    /\ servers_dir = [c \in CliFilenames |-> Absent]
    /\ selected_llm = None
    /\ selections = [c \in CliFilenames |-> NoSelectionFile]
    /\ op = "none"
    /\ selected_servers = {}
    /\ new_servers = <<>>
    /\ targets = <<>>
    /\ queue = <<>>
    /\ results = <<>>
    /\ before = NoFiles
    /\ again = FALSE
    /\ selector = SelectorClosed
    /\ runs = 0

\* The files llm.launch_llm_with_config writes: generated/<filename>, the
\* app's config for the OS, the project's config.
NoOutputs == [generated |-> Absent, app |-> Absent, project |-> Absent]

\* DEFAULT_CONFIG["selected_mcp_servers"] for every LLM.
NothingSaved == [os \in {"windows", "wsl"} |-> <<>>]

RenderIdle ==
    /\ saved = NothingSaved
    /\ fault = "none"
    /\ outputs = NoOutputs
    /\ reports = <<>>
    /\ source = NoDoc
    /\ os_mode = "windows"
    /\ template = NoTemplate("")
    /\ llm3 = NoLLMTemplate("")
    /\ selected_mcp_servers = <<>>
    /\ document = NoDoc
    /\ pc = "start"

\* ------------------------------------------------------- llm.py state machine
InitRender ==
    /\ saved = NothingSaved
    /\ fault = "none"
    /\ outputs = NoOutputs
    /\ reports = <<>>
    /\ source \in TomlSources \cup JsonSources
    /\ os_mode \in OsModes
    /\ template = NoTemplate("")
    /\ llm3 = NoLLMTemplate("")
    /\ selected_mcp_servers = <<>>
    /\ document = NoDoc
    /\ pc = "start"
    /\ DeployIdle

\* llm.main: load_templates for the OS; with no template the program ends.
\* The loop catches ValueError only: any other exception ends the program.
LoadTemplates ==
    /\ pc = "start"
    /\ template' = LoadTemplate(source, os_mode)
    /\ pc' = CASE template'.ok -> "menu"
               [] template'.error = "TypeError" -> "crashed"
               [] OTHER -> "skipped"
    /\ UNCHANGED <<source, os_mode, llm3, selected_mcp_servers, document, launchVars,
                   saved, deployVars>>

\* main3.load_all_llms_and_servers on a JSON file of servers/.
LoadJson3 ==
    /\ pc = "start"
    /\ source.fmt = "json"
    /\ llm3' = LoadJsonTemplate3(source.json)
    /\ pc' = IF llm3'.error = "TypeError" THEN "crashed" ELSE "loaded3"
    /\ UNCHANGED <<source, os_mode, template, selected_mcp_servers, document, launchVars,
                   saved, deployVars>>

\* main3.load_all_llms_and_servers on a TOML file of servers/.
LoadToml3 ==
    /\ pc = "start"
    /\ source.fmt = "toml"
    /\ llm3' = LoadTomlTemplate3(source.lines)
    /\ pc' = "loaded3"
    /\ UNCHANGED <<source, os_mode, template, selected_mcp_servers, document, launchVars,
                   saved, deployVars>>

\* llm.select_mcp_servers, from its first prompt to the save on "x".
SelectMcpServers ==
    /\ pc \in {"menu", "selected"}
    /\ \E sel \in SelectionLists :
          /\ selected_mcp_servers' = sel
          /\ saved' = [saved EXCEPT ![os_mode] = sel]
    /\ pc' = "selected"
    /\ UNCHANGED <<source, os_mode, template, llm3, document, launchVars, deployVars>>

\* The I/O steps of launch_llm_with_config, in order; "none": all succeed.
Faults == {"none", "output", "app_mkdir", "app_copy", "project_mkdir", "project_copy"}

\* One "try: shutil.copy2(...) except Exception" of launch_llm_with_config:
\* the destination afterwards and the tick or cross printed for it.
CopyTo(dest, doc, old, fails) ==
    [file |-> IF fails THEN old ELSE doc, report |-> [dest |-> dest, ok |-> ~fails]]

\* launch_llm_with_config from the write of generated/<filename> to the second
\* copy.  The write and the two mkdir calls are outside any try: a failure
\* there leaves the function as an exception.
WriteAndCopy(doc, old, failing) ==
    LET app == CopyTo("app", doc, old.app, failing = "app_copy")
        project == CopyTo("project", doc, old.project, failing = "project_copy")
    IN  CASE failing = "output" ->
                [raised |-> TRUE, outputs |-> old, reports |-> <<>>]
          [] failing = "app_mkdir" ->
                [raised |-> TRUE, outputs |-> [old EXCEPT !.generated = doc],
                 reports |-> <<>>]
          [] failing = "project_mkdir" ->
                [raised |-> TRUE,
                 outputs |-> [old EXCEPT !.generated = doc, !.app = app.file],
                 reports |-> <<app.report>>]
          [] OTHER ->
                [raised |-> FALSE,
                 outputs |-> [generated |-> doc, app |-> app.file,
                              project |-> project.file],
                 reports |-> <<app.report, project.report>>]

\* llm.launch_llm_with_config up to the launch of the CLI; option 3 of the menu
\* can be chosen again once it has returned.
LaunchLlmWithConfig ==
    /\ pc \in {"selected", "launched"}
    /\ LET temp_template == FilteredTemplate(template, selected_mcp_servers)
           doc == Render(temp_template, selected_mcp_servers)
           after == TemplateAfterRender(temp_template, selected_mcp_servers)
           done == WriteAndCopy(doc, outputs, fault)
       IN  /\ document' = doc
           /\ template' = [template EXCEPT !.metadata = after.metadata,
                                           !.header_lines = after.header_lines]
           /\ outputs' = done.outputs
           /\ reports' = done.reports
           /\ pc' = IF done.raised THEN "launch_raised" ELSE "launched"
    /\ UNCHANGED <<source, os_mode, llm3, selected_mcp_servers, fault, saved,
                   deployVars>>

\* llm.select_llm: another of the loaded templates becomes the selected LLM.
SelectLlm ==
    /\ pc \in {"menu", "selected"}
    /\ \E os \in OsModes :
          /\ LoadTemplate(source, os).ok
          /\ os_mode' = os
          /\ template' = LoadTemplate(source, os)
    /\ UNCHANGED <<source, llm3, selected_mcp_servers, document, pc, launchVars, saved,
                   deployVars>>

NextRender == LoadTemplates \/ LoadJson3 \/ SelectMcpServers \/ LaunchLlmWithConfig

\* Every source, no I/O failure.
SpecRender == InitRender /\ [][NextRender]_vars

\* The lines of a TOML file of main3's servers/: tables without a qualifier.
TomlLines3 ==
    { Table("", "mcp_servers", "a", ""),
      Table("", "mcp_servers", "a", "env"),
      Table("", "mcp_servers", "b", ""),
      Text("k1"),
      Blank }

InitLoad3 ==
    /\ saved = NothingSaved
    /\ fault = "none"
    /\ outputs = NoOutputs
    /\ reports = <<>>
    /\ source \in {TomlDoc(lines) : lines \in SeqsUpTo(TomlLines3, MaxLines)}
    /\ os_mode = "windows"
    /\ template = NoTemplate("")
    /\ llm3 = NoLLMTemplate("")
    /\ selected_mcp_servers = <<>>
    /\ document = NoDoc
    /\ pc = "start"
    /\ DeployIdle

\* main3.load_all_llms_and_servers over TOML files with up to MaxLines lines.
SpecLoad3 == InitLoad3 /\ [][LoadToml3]_vars

\* A few sources, every I/O failure of the launch, any walk through the menu.
LaunchSources ==
    { TomlDoc(<<Table("windows", "mcp_servers", "a", ""), Text("k1"),
                Table("wsl", "mcp_servers", "b", "")>>),
      JsonDoc(Obj(<<Entry("mcpServers", ValueUnder("mcpServers", 1))>>), TRUE, TRUE),
      JsonDoc(Obj(<<Entry("windows", Obj(<<Entry("mcpServers", ValueUnder("mcpServers", 1))>>)),
                    Entry("wsl", Obj(<<Entry("mcp", ValueUnder("mcp", 2))>>))>>),
              TRUE, TRUE) }

OldOutputs ==
    { NoOutputs,
      [generated |-> Absent, app |-> TomlDoc(<<Text("old")>>),
       project |-> TomlDoc(<<Text("old")>>)] }

InitLaunch ==
    /\ saved = NothingSaved
    /\ fault \in Faults
    /\ outputs \in OldOutputs
    /\ reports = <<>>
    /\ source \in LaunchSources
    /\ os_mode \in OsModes
    /\ template = NoTemplate("")
    /\ llm3 = NoLLMTemplate("")
    /\ selected_mcp_servers = <<>>
    /\ document = NoDoc
    /\ pc = "start"
    /\ DeployIdle

NextLaunch == NextRender \/ SelectLlm

SpecLaunch == InitLaunch /\ [][NextLaunch]_vars

\* ----------------------------------------------------- main3.py state machine
\* The servers the selector offers: the keys of MCP_SERVERS_DB.
CatalogNames == KeySet(MCP_SERVERS_DB)

\* Existing JSON destinations.
CustomA == Obj(<<Entry("command", Scalar("str", "my-own-a"))>>)

CustomC == Obj(<<Entry("command", Scalar("str", "my-own-c"))>>)

JsonFiles ==
    { Absent,
      Garbage,
      JsonDoc(Obj(<<Entry("other", Scalar("num", "5"))>>), TRUE, TRUE),
      JsonDoc(Obj(<<Entry("mcpServers", Obj(<<Entry("a", CustomA), Entry("c", CustomC)>>)),
                    Entry("other", Scalar("num", "5"))>>), FALSE, TRUE),
      JsonDoc(Obj(<<Entry("mcp", Obj(<<>>)), Entry("mcpServers", Obj(<<>>))>>), TRUE, FALSE),
      JsonDoc(Obj(<<Entry("mcp_servers", Scalar("str", "x"))>>), TRUE, TRUE) }

\* The JSON files servers/ may hold for a CLI.
ServersFiles ==
    { Absent,
      Garbage,
      JsonDoc(Obj(<<Entry("other", Scalar("num", "5"))>>), TRUE, TRUE),
      JsonDoc(Obj(<<Entry("mcp_servers", Obj(<<Entry("a", CustomA), Entry("c", CustomC)>>)),
                    Entry("other", Scalar("num", "5"))>>), FALSE, TRUE) }

\* The lines an existing TOML destination is made of.
DestLines ==
    { Text("model"),
      Blank,
      Table("", "mcp_servers", "b", ""),
      Table("", "mcp_servers", "a", ""),
      Table("", "other", "", "") }

TomlFiles == {Absent} \cup {TomlDoc(lines) : lines \in SeqsUpTo(DestLines, MaxDestLines)}

ProjectTomlFiles ==
    {Absent, TomlDoc(<<Table("", "mcp_servers", "b", ""), Text("model")>>)}

\* The destinations of one CLI.
PathsOf(cli) == Range(AppLocations("windows", cli)) \cup Range(AppLocations("project", cli))

\* The machine's files when the program starts: any destinations of one CLI,
\* with none of the others.
InitialFiles ==
    UNION { { [p \in Paths |-> IF p \in PathsOf(cli) THEN j[p] ELSE Absent] :
                j \in [PathsOf(cli) -> JsonFiles] } :
            cli \in {"amazonq_mcp.json", "cline_mcp_settings.json"} }
    \cup
    { [p \in Paths |-> CASE p = "home/codex/config.toml" -> t
                         [] p = "project/codex/config.toml" -> u
                         [] OTHER -> Absent] :
        t \in TomlFiles, u \in ProjectTomlFiles }

\* servers/: a JSON file for one JSON CLI, of any kind on the machines that
\* have no JSON destination yet.
InitialServersDir(fs) ==
    IF \A p \in Paths : fs[p] = Absent \/ IsTomlPath(p)
    THEN { [c \in CliFilenames |-> IF c = "amazonq_mcp.json" THEN j ELSE Absent] :
            j \in ServersFiles }
    ELSE { [c \in CliFilenames |-> Absent] }

\* The program at its menu on a machine with the files fs, the servers/ files
\* dir and the selections/ files sels: DEFAULT_CONFIG, nothing deployed yet.
StartOn(fs, dir, sels) ==
    /\ RenderIdle
    /\ files = fs
    /\ servers_dir = dir
    /\ selected_llm = None
    /\ selections = sels
    /\ op = "none"
    /\ selected_servers = {}
    /\ new_servers = <<>>
    /\ targets = <<>>
    /\ queue = <<>>
    /\ results = <<>>
    /\ before = fs
    /\ again = FALSE
    /\ selector = SelectorClosed
    /\ runs = 0

NoSelections == [c \in CliFilenames |-> NoSelectionFile]

Init ==
    \E fs \in InitialFiles : \E dir \in InitialServersDir(fs) :
        StartOn(fs, dir, NoSelections)

AtMenu == queue = <<>>

\* main_menu option 1: select_cli returns a filename, saved in the config.
SelectCli ==
    /\ AtMenu
    /\ runs < MaxRuns
    /\ \E cli \in CliFilenames : selected_llm' = cli
    /\ UNCHANGED <<files, servers_dir, selections, op, selected_servers, new_servers,
                   targets, queue, results, before, again, selector, runs, renderVars>>

\* display_server_selector left by "done": the loaded set after any toggles
\* of catalog servers, "all" and "none".
SelectorResults(loaded) ==
    {chosen \cup kept : chosen \in SUBSET CatalogNames,
                        kept \in {{}, loaded \ CatalogNames}}

\* main_menu option 2 with the selector left by "done": save_selections, and
\* for a non-empty selection apply_servers_to_cli, then
\* deploy_config_to_app_locations up to its loop.
ConfigureServers ==
    /\ AtMenu
    /\ selected_llm # None
    /\ runs < MaxRuns
    /\ \E sel \in SelectorResults(LoadSelections(selections[selected_llm])) :
          /\ selections' = [selections EXCEPT ![selected_llm] = SavedSelections(sel)]
          /\ IF sel = {}
             THEN UNCHANGED <<servers_dir, op, selected_servers, new_servers, targets,
                              queue, results, before, again, selector, runs>>
             ELSE /\ servers_dir' = [servers_dir EXCEPT ![selected_llm] =
                                        ApplyServersToCli(selected_llm, @, NewServers(sel))]
                  /\ op' = "deploy"
                  /\ selected_servers' = sel
                  /\ new_servers' = NewServers(sel)
                  /\ targets' = DeployPaths(selected_llm)
                  /\ queue' = DeployPaths(selected_llm)
                  /\ results' = <<>>
                  /\ before' = files
                  /\ again' = (/\ op = "deploy"
                                /\ selected_servers = sel
                                /\ targets = DeployPaths(selected_llm))
                  /\ selector' = selector
                  /\ runs' = runs + 1
    /\ UNCHANGED <<files, selected_llm, renderVars>>

\* One iteration of "for target_path_raw in target_paths".
DeployPath ==
    /\ op = "deploy"
    /\ queue # <<>>
    /\ LET path == Head(queue)
           out == DeployOne(path, files[path], new_servers)
       IN  /\ files' = [files EXCEPT ![path] = out.file]
           /\ results' = Append(results, [path |-> path, ok |-> out.ok])
    /\ queue' = Tail(queue)
    /\ UNCHANGED <<servers_dir, selected_llm, selections, op, selected_servers,
                   new_servers, targets, before, again, selector, runs, renderVars>>

\* main_menu option 4: install_all_to_project up to its loop; it returns at
\* once with no CLI selected or no server selected for it.
InstallAllToProject ==
    /\ AtMenu
    /\ selected_llm # None
    /\ LoadSelections(selections[selected_llm]) # {}
    /\ runs < MaxRuns
    /\ op' = "install"
    /\ selected_servers' = LoadSelections(selections[selected_llm])
    /\ new_servers' = NewServers(LoadSelections(selections[selected_llm]))
    /\ targets' = ProjectLocations
    /\ queue' = ProjectLocations
    /\ results' = <<>>
    /\ before' = files
    /\ again' = FALSE
    /\ selector' = selector
    /\ runs' = runs + 1
    /\ UNCHANGED <<files, servers_dir, selected_llm, selections, renderVars>>

\* One iteration of "for cli_filename, target_path_raw in locations.items()".
InstallPath ==
    /\ op = "install"
    /\ queue # <<>>
    /\ LET path == Head(queue)
           out == InstallOne(path, files[path], new_servers)
       IN  /\ files' = [files EXCEPT ![path] = out.file]
           /\ results' = Append(results, [path |-> path, ok |-> out.ok])
    /\ queue' = Tail(queue)
    /\ UNCHANGED <<servers_dir, selected_llm, selections, op, selected_servers,
                   new_servers, targets, before, again, selector, runs, renderVars>>

Next == SelectCli \/ ConfigureServers \/ DeployPath \/ InstallAllToProject \/ InstallPath

Spec == Init /\ [][Next]_vars

\* The program is sequential: a loop that has started goes on to its next
\* iteration.
Fairness == WF_vars(DeployPath) /\ WF_vars(InstallPath)

\* A few machines: no file yet, or one unreadable destination among fresh
\* ones, or existing destinations of every kind.
FewFiles ==
    { NoFiles,
      [NoFiles EXCEPT !["aitk/mcp.json"] = Garbage,
                      !["project/.clinerules"] = Garbage],
      [NoFiles EXCEPT !["aws/amazonq/mcp.json"] =
                          JsonDoc(Obj(<<Entry("other", Scalar("num", "5"))>>), TRUE, TRUE),
                      !["project/amazonq/mcp.json"] =
                          JsonDoc(Obj(<<Entry("mcp_servers", Scalar("str", "x"))>>),
                                  TRUE, TRUE),
                      !["home/codex/config.toml"] =
                          TomlDoc(<<Table("", "mcp_servers", "b", ""), Text("model")>>)] }

InitFew == \E fs \in FewFiles : StartOn(fs, [c \in CliFilenames |-> Absent], NoSelections)

FairSpec == InitFew /\ [][Next]_vars /\ Fairness

\* What target_path holds when the process is stopped in
\* "with target_path.open("w") as f: json.dump(...)" or "f.write(content)":
\* the old content before the open, the file cut short once the open has
\* emptied it and before the last byte is flushed, the new content after.  A
\* JSON text cut short is one json.load rejects.
Interrupted(old, new) ==
    {old, new}
        \cup (IF new.fmt = "toml"
              THEN {TomlDoc(SubSeq(new.lines, 1, k)) : k \in 0..(Len(new.lines) - 1)}
              ELSE {Garbage})

\* The process is stopped while the loop of a deploy or an install is writing
\* the destination at the head of its queue; nothing runs afterwards.
Interrupt ==
    /\ op \in {"deploy", "install"}
    /\ queue # <<>>
    /\ LET path == Head(queue)
           out == IF op = "deploy" THEN DeployOne(path, files[path], new_servers)
                                   ELSE InstallOne(path, files[path], new_servers)
       IN  /\ out.ok
           /\ \E left \in Interrupted(files[path], out.file) :
                 files' = [files EXCEPT ![path] = left]
    /\ op' = IF op = "deploy" THEN "deploy_interrupted" ELSE "install_interrupted"
    /\ UNCHANGED <<servers_dir, selected_llm, selections, selected_servers, new_servers,
                   targets, queue, results, before, again, selector, runs, renderVars>>

NextInterrupt == Next \/ Interrupt

\* A few machines, and a stop of the process at any write.
SpecInterrupt == InitFew /\ [][NextInterrupt]_vars

\* ------------------------------------------------ main2_fixed.py state machine
\* servers_list: the keys of main2_fixed.MCP_SERVERS_DB in iteration order.
servers_list == <<"playwright", "puppeteer", "github", "git", "postgres", "mongodb">>

items_per_page == 10

\* How many times main_menu's option 1 is taken.
MaxSessions == 1

\* range(max_iterations): the code's 100 iterations, cut down.
max_iterations == 3

\* servers_list[i]["key"] with Python's indexing: a negative index counts from
\* the end.
KeyAt(i) == servers_list[(i % Len(servers_list)) + 1]

\* new_servers of main2_fixed.apply_servers_to_cli: server_info["config"] of
\* every selected server of the catalog, as it stands.
NewServers2(selected) ==
    LET chosen == SelectSeq(servers_list, LAMBDA key : key \in selected)
    IN  [i \in 1..Len(chosen) |->
            Entry(chosen[i], Obj(<<Entry("type", Scalar("str", "stdio")),
                                   Entry("command", Scalar("str", "npx")),
                                   Entry("args", Scalar("list", chosen[i]))>>))]

\* main2_fixed.apply_servers_to_cli: every file of SERVERS_DIR.glob("*.json")
\* that has a container gets the servers.
ApplyServersToCli2(dir, selected) ==
    [c \in CliFilenames |-> ApplyServersToCli(c, dir[c], NewServers2(selected))]

\* main_menu option 1 once select_cli_and_servers has returned
\* (cli_filename, selected_servers).
Configured2(cli, selected) ==
    IF selected # {}
    THEN /\ servers_dir' = ApplyServersToCli2(servers_dir, selected)
         /\ selected_llm' = cli
    ELSE UNCHANGED <<servers_dir, selected_llm>>

\* select_cli_and_servers picks one of the loaded templates, and
\* display_server_selector runs up to its loop.
DisplayServerSelector ==
    /\ ~selector.open
    /\ runs < MaxSessions
    /\ runs' = runs + 1
    /\ \E cli \in CliFilenames :
          /\ servers_dir[cli].fmt = "json"
          /\ LoadJsonTemplate3(servers_dir[cli].json).ok
          /\ LET selected == LoadSelections(selections[cli])
             IN  selector' = [open |-> TRUE, left |-> "none", cli |-> cli,
                              loaded |-> selected, scroll_pos |-> 0,
                              selected_indices |->
                                  {i \in 0..(Len(servers_list) - 1) :
                                      servers_list[i + 1] \in selected},
                              iteration |-> 0]
    /\ UNCHANGED <<files, servers_dir, selected_llm, selections, op, selected_servers,
                   new_servers, targets, queue, results, before, again, renderVars>>

Min(a, b) == IF a <= b THEN a ELSE b

\* One iteration of the loop for a digit, "w", "s" or "a".
SelectorCommand ==
    /\ selector.open
    /\ selector.iteration < max_iterations
    /\ \E ch \in {"digit", "w", "s", "a"} : \E idx \in 0..9 :
          LET len == Len(servers_list)
              pos == selector.scroll_pos
              marked == selector.selected_indices
          IN  selector' =
                [selector EXCEPT
                    !.iteration = @ + 1,
                    !.scroll_pos =
                        CASE ch = "w" -> IF pos - items_per_page > 0
                                         THEN pos - items_per_page ELSE 0
                          [] ch = "s" -> Min(len - items_per_page, pos + items_per_page)
                          [] OTHER -> pos,
                    !.selected_indices =
                        CASE ch = "digit" /\ idx < Min(items_per_page, len - pos) ->
                                IF pos + idx \in marked THEN marked \ {pos + idx}
                                ELSE marked \cup {pos + idx}
                          [] ch = "a" -> IF Cardinality(marked) = len THEN {}
                                         ELSE 0..(len - 1)
                          [] OTHER -> marked]
    /\ UNCHANGED <<files, servers_dir, selected_llm, selections, op, selected_servers,
                   new_servers, targets, queue, results, before, again, runs, renderVars>>

\* "c": the marked servers are saved and returned to main_menu.
SelectorConfirm ==
    /\ selector.open
    /\ selector.iteration < max_iterations
    /\ LET selected == {KeyAt(i) : i \in selector.selected_indices}
       IN  /\ selections' = [selections EXCEPT ![selector.cli] = SavedSelections(selected)]
           /\ Configured2(selector.cli, selected)
    /\ selector' = [selector EXCEPT !.open = FALSE, !.left = "confirm"]
    /\ UNCHANGED <<files, op, selected_servers, new_servers, targets, queue, results,
                   before, again, runs, renderVars>>

\* "q", or the loop has run max_iterations times: "return selected", the set
\* load_selections gave, goes back to main_menu.
SelectorQuit ==
    /\ selector.open
    /\ Configured2(selector.cli, selector.loaded)
    /\ selector' = [selector EXCEPT
                        !.open = FALSE,
                        !.left = IF selector.iteration < max_iterations
                                 THEN "quit" ELSE "limit"]
    /\ UNCHANGED <<files, selections, op, selected_servers, new_servers, targets, queue,
                   results, before, again, runs, renderVars>>

Next2 == DisplayServerSelector \/ SelectorCommand \/ SelectorConfirm \/ SelectorQuit

\* servers/ with a template for each JSON CLI; for one CLI a selection saved by
\* an earlier session, or none.
Init2 ==
    \E saved2 \in {{}, {"github"}, {"git", "mongodb"}} :
        StartOn(NoFiles,
                [c \in CliFilenames |->
                    IF c = "codex_config.toml" THEN Absent
                    ELSE JsonDoc(Obj(<<Entry("mcpServers", Obj(<<>>))>>), TRUE, TRUE)],
                [c \in CliFilenames |->
                    IF c = "amazonq_mcp.json" /\ saved2 # {}
                    THEN SelectionFile("list", saved2) ELSE NoSelectionFile])

Spec2 == Init2 /\ [][Next2]_vars

\* Any selections/ file for one CLI, on a fresh machine.
SelectionFiles ==
    {SelectionFile(shape, {}) :
        shape \in {"absent", "unreadable", "garbage", "nodict", "nokey", "nested", "number"}}
    \cup {SelectionFile("list", items) : items \in SUBSET {"a", "b", "c"}}
    \cup {SelectionFile("string", {"a", "b"}), SelectionFile("string", {"x"}),
          SelectionFile("dict", {"a"}), SelectionFile("dict", {"x", "y"})}

InitStore ==
    \E cli \in CliFilenames : \E file \in SelectionFiles :
        StartOn(NoFiles, [c \in CliFilenames |-> Absent],
                [c \in CliFilenames |-> IF c = cli THEN file ELSE NoSelectionFile])

StoreSpec == InitStore /\ [][Next]_vars

\* ======================================================== claims on llm.py ==
Loaded == pc \in {"menu", "selected", "launched"}

\* The index of the last line at or before i that starts a server block of
\* either OS; 0 when there is none.
GoverningStart(lines, i) ==
    LET starts == {j \in 1..i : \E os \in OsModes : StartsServerBlock(lines[j], os)}
    IN  IF starts = {} THEN 0 ELSE CHOOSE j \in starts : \A k \in starts : k <= j

\* Line i lies in a section of os: the last block start at or before it is one
\* of os.
InSectionOf(lines, i, os) ==
    /\ GoverningStart(lines, i) > 0
    /\ StartsServerBlock(lines[GoverningStart(lines, i)], os)

\* The lines of os's sections that open with server name, in text order.
SectionLines(lines, name, os) ==
    LET idx == SelectSeq([i \in 1..Len(lines) |-> i],
                         LAMBDA i : /\ InSectionOf(lines, i, os)
                                    /\ lines[GoverningStart(lines, i)].name = name)
    IN  [k \in 1..Len(idx) |-> lines[idx[k]]]

SectionNames(lines, os) ==
    {lines[i].name : i \in {j \in 1..Len(lines) : StartsServerBlock(lines[j], os)}}

Unqualified(lines) == [i \in 1..Len(lines) |-> [lines[i] EXCEPT !.qual = ""]]

NonBlankLines(lines) == SelectSeq(lines, NonBlank)

RECURSIVE Flatten(_)
Flatten(seqs) == IF seqs = <<>> THEN <<>> ELSE Head(seqs) \o Flatten(Tail(seqs))

\* C8: a TOML file loaded for OS q yields blocks that hold exactly the lines
\* of q's sections (the lines from a server block of the other OS up to the
\* next block start of q are dropped), and the rendered document holds the
\* selected blocks' lines with the qualifier removed from every section header.
C8_QualifierHandling ==
    (Loaded /\ source.fmt = "toml") =>
        /\ DOMAIN template.server_blocks = SectionNames(source.lines, os_mode)
        /\ \A n \in DOMAIN template.server_blocks :
              template.server_blocks[n] = SectionLines(source.lines, n, os_mode)
        /\ pc = "launched" =>
              /\ \A i \in 1..Len(document.lines) : document.lines[i].qual = ""
              /\ NonBlankLines(document.lines) =
                    LET names == Restrict(template.server_order,
                                          Range(selected_mcp_servers))
                    IN  Flatten([i \in 1..Len(names) |->
                            Unqualified(NonBlankLines(
                                SectionLines(source.lines, names[i], os_mode)))])

\* The spec's scenario: x of profileA, then x of profileB, loaded for
\* profileA and rendered with {x}.
C8_Witness ==
    /\ pc = "launched"
    /\ os_mode = "windows"
    /\ source.lines = <<Table("windows", "mcp_servers", "a", ""), Text("k1"),
                        Table("wsl", "mcp_servers", "a", ""), Text("k1")>>
    /\ selected_mcp_servers = <<"a">>
    /\ document.lines = <<Table("", "mcp_servers", "a", ""), Text("k1")>>

\* The alias the claim says is picked among the keys present.
FirstAliasAmong(keys) ==
    IF "mcpServers" \in keys THEN "mcpServers"
    ELSE IF "mcp_servers" \in keys THEN "mcp_servers"
    ELSE IF "mcp" \in keys THEN "mcp"
    ELSE None

\* C9: JSON parse picks the first alias present in the order mcpServers,
\* mcp_servers, mcp as the container key; every other key of the document,
\* later aliases included, becomes metadata; with no alias present the parse
\* fails with the missing-container error and yields no template.
C9_ContainerKey ==
    /\ (pc = "loaded3" /\ IsDict(source.json)) =>
          LET d == source.json.o
              ckey == FirstAliasAmong(KeySet(d))
          IN  /\ ckey = None => (~llm3.ok /\ llm3.error = "MissingContainer")
              /\ llm3.ok => /\ llm3.container_key = ckey
                            /\ ckey # None
                            /\ llm3.servers = Get(d, ckey).o
                            /\ llm3.metadata =
                                  SelectSeq(d, LAMBDA e : e.k # ckey)
              /\ (ckey # None /\ IsDict(Get(d, ckey))) => llm3.ok
    /\ (pc \in {"menu", "skipped"} /\ source.fmt = "json" /\ IsDict(source.json)
            /\ Has(source.json.o, os_mode) /\ IsDict(Get(source.json.o, os_mode))) =>
          LET d == Get(source.json.o, os_mode).o
              ckey == FirstAliasAmong(KeySet(d))
          IN  /\ ckey = None => (~template.ok /\ template.error = "MissingContainer"
                                    /\ pc = "skipped")
              /\ template.ok =>
                    /\ template.container_key = ckey
                    /\ ckey # None
                    /\ template.server_order = Keys(Get(d, ckey).o)
                    /\ \A k \in KeySet(d) \ {ckey} : Has(template.metadata, k)
                    /\ \A k \in KeySet(source.json.o) \ {"windows", "wsl"} :
                          /\ Has(template.metadata, k)
                          /\ Get(template.metadata, k) = Get(source.json.o, k)
              /\ (ckey # None /\ IsDict(Get(d, ckey))) => template.ok

\* Two aliases present: the first in the fixed order is the container, the
\* later one is metadata.
C9_Witness ==
    /\ pc = "loaded3"
    /\ llm3.ok
    /\ Keys(source.json.o) = <<"mcp", "other", "mcpServers">>
    /\ llm3.container_key = "mcpServers"
    /\ Keys(llm3.metadata) = <<"mcp", "other">>

\* The names of the blocks of a rendered document, in the document's order:
\* the container's keys (JSON), the names the block headers carry (TOML).
DocBlockOrder(doc) ==
    IF doc.fmt = "json"
    THEN LET ckey == FirstAliasAmong(KeySet(doc.json.o))
         IN  IF ckey = None THEN <<>> ELSE Keys(Get(doc.json.o, ckey).o)
    ELSE LET heads == SelectSeq(doc.lines,
                          LAMBDA l : l.kind = "table" /\ l.sub = ""
                                     /\ l.key \in {"mcp_servers", "mcpServers"})
         IN  [i \in 1..Len(heads) |-> heads[i].name]

\* normalize: trailing blank lines collapsed, one trailing newline.
Normalize(doc) ==
    IF doc.fmt = "toml" THEN TomlDoc(JoinLines(StripTrailingBlank(doc.lines)))
    ELSE [doc EXCEPT !.nl = TRUE]

\* A TOML source as the renderer is to write it: the section headers of the
\* OS loaded for without their qualifier.
WithoutQualifier(doc, os) ==
    IF doc.fmt = "toml"
    THEN TomlDoc([i \in 1..Len(doc.lines) |-> StripOs(doc.lines[i], os)])
    ELSE doc

\* The document llm.py renders from: the source file (TOML), the section of
\* the OS loaded for (JSON).
SourceDocument ==
    IF source.fmt = "json"
    THEN JsonDoc(Get(source.json.o, os_mode), source.canon, source.nl)
    ELSE source

\* C3: parsing a source document and rendering it with selection = all block
\* names found in it yields normalize(D) (the qualifier of the OS loaded for
\* apart, which the renderer is to strip).
C3_RoundTrip ==
    (pc = "launched" /\ Range(selected_mcp_servers) = Range(template.server_order)) =>
        document = Normalize(WithoutQualifier(SourceDocument, os_mode))

\* all_servers = sorted(all server names of all templates)
AllMcpServers == <<"a", "b", "c">>

\* C5: every selected name of the catalog that the source document lacks is
\* in the rendered output, after all source-present selected blocks, the new
\* names in catalog order.
C5_NewBlockAppend ==
    pc = "launched" =>
        DocBlockOrder(document) =
            Restrict(template.server_order, Range(selected_mcp_servers))
                \o Restrict(AllMcpServers,
                            Range(selected_mcp_servers) \ Range(template.server_order))

\* The lines preceding the first block start.
HeaderOf(lines) ==
    LET starts == {j \in 1..Len(lines) : \E os \in OsModes : StartsServerBlock(lines[j], os)}
    IN  IF starts = {} THEN lines
        ELSE SubSeq(lines, 1, (CHOOSE j \in starts : \A k \in starts : j <= k) - 1)

\* C7: rendering with the empty selection yields an empty block region, the
\* JSON metadata (every other key of the document, with its value) and the
\* TOML header lines (the lines preceding the first block start) as in the
\* source.
C7_EmptySelection ==
    (pc = "launched" /\ selected_mcp_servers = <<>>) =>
        /\ DocBlockOrder(document) = <<>>
        /\ source.fmt = "toml" =>
              StripTrailingBlank(document.lines) = StripTrailingBlank(HeaderOf(source.lines))
        /\ source.fmt = "json" =>
              LET d == SourceDocument.json.o
              IN  \A k \in KeySet(d) \ {template.container_key} :
                      /\ Has(document.json.o, k)
                      /\ ~Has(source.json.o, k) =>
                            Get(document.json.o, k) = Get(d, k)

\* ----------------------------------------------- claims on main3.py's deploys
\* The operation started last has visited every path of its list.
Done == op # "none" /\ queue = <<>>

\* The servers container of a JSON file, as its ordered entries.
ContainerOf(file) ==
    IF /\ file.fmt = "json"
       /\ FindContainerKey(file.json.o) # None
       /\ IsDict(Get(file.json.o, FindContainerKey(file.json.o)))
    THEN Get(file.json.o, FindContainerKey(file.json.o)).o
    ELSE <<>>

RECURSIVE FirstSeen(_)
\* A sequence without the later occurrences of its members.
FirstSeen(seq) ==
    IF seq = <<>> THEN <<>>
    ELSE LET front == FirstSeen(SubSeq(seq, 1, Len(seq) - 1))
             last == seq[Len(seq)]
         IN  IF last \in Range(front) THEN front ELSE Append(front, last)

\* The names of the [mcp_servers.<name>] tables of a TOML file, in order.
TomlTableNames(file) ==
    LET tables == SelectSeq(file.lines, StartsMcpTable)
    IN  FirstSeen([i \in 1..Len(tables) |-> tables[i].name])

\* The server names a destination holds, in the order it holds them.
BlockOrder(path, file) ==
    IF IsTomlPath(path) THEN TomlTableNames(file) ELSE Keys(ContainerOf(file))

\* The paths the operation has reported a tick for.
Written == {results[i].path : i \in {j \in 1..Len(results) : results[j].ok}}

\* C1: when a deploy with selection S has finished, the servers container of
\* every destination it wrote holds exactly the names of S.
C1_ExactlySelected ==
    Done => \A path \in Written :
                Range(BlockOrder(path, files[path])) = selected_servers

\* C2: when the operation has finished, every destination whose existing file
\* could not be parsed is reported as failed and every destination that did not
\* exist is reported as written.
C2_FailureIsolation ==
    Done => \A i \in 1..Len(results) :
                /\ before[results[i].path].fmt = "garbage" => ~results[i].ok
                /\ before[results[i].path].fmt = "absent" => results[i].ok

\* C4: the selected servers a written destination already held keep, among
\* themselves, the order in which the destination held them.
C4_OrderPreserved ==
    Done => \A path \in Written :
                Restrict(BlockOrder(path, files[path]),
                         Range(BlockOrder(path, before[path])))
                    = Restrict(BlockOrder(path, before[path]), selected_servers)

\* C6: a selected server that a written JSON destination already held keeps the
\* content the destination had for it.
C6_ExistingContentKept ==
    Done => \A path \in Written :
                \A name \in selected_servers \cap KeySet(ContainerOf(before[path])) :
                    /\ Has(ContainerOf(files[path]), name)
                    /\ Get(ContainerOf(files[path]), name)
                           = Get(ContainerOf(before[path]), name)

\* An existing JSON destination that parsed to an object with no container key.
LacksContainer(file) == file.fmt = "json" /\ FindContainerKey(file.json.o) = None

C11_LoadNeverRaises ==
    /\ pc # "crashed"
    /\ pc = "skipped" => (~template.ok /\ template.error # "")
    /\ pc = "loaded3" => (llm3.ok \/ llm3.error # "")

\* C12: an I/O failure at one destination of a launch is reported for that
\* destination only, leaves the launch by no exception, and keeps no other
\* destination from being attempted.
C12_IoFailureIsolated ==
    /\ pc # "launch_raised"
    /\ pc = "launched" =>
          /\ Len(reports) = 2
          /\ \A i \in 1..Len(reports) :
                reports[i].ok <=> fault \notin {"app_copy", "project_copy"}
                                    \/ (fault = "app_copy") # (reports[i].dest = "app")

\* ------------------------------------------------- claims on the deploy loop
\* The paths reported so far, in the order reported.
ResultPaths == [i \in 1..Len(results) |-> results[i].path]

\* The paths reported so far and the paths still to visit are, in this order,
\* the paths registered for the operation, none of them twice: for a deploy
\* every path of the CLI's "windows" entry, then every path of its "project"
\* entry; for an install the "project" path of every CLI.
EachPathOnceInOrder ==
    /\ ResultPaths \o queue = targets
    /\ NoDup(targets)
    /\ (op = "deploy" /\ queue # <<>>) =>
          targets = AppLocations("windows", selected_llm)
                        \o AppLocations("project", selected_llm)
    /\ op = "install" => targets = ProjectLocations

\* C13: every deploy terminates, and every path registered for the target is
\* attempted exactly once, in descriptor order, with one outcome per path.
C13_DeployTerminates ==
    /\ []EachPathOnceInOrder
    /\ (queue # <<>>) ~> (queue = <<>> /\ ResultPaths = targets)

\* A deploy over a list of two paths and a single path has reported all three.
C13_Witness ==
    /\ Done
    /\ op = "deploy"
    /\ ResultPaths = <<"aws/amazonq/mcp.json", "aitk/mcp.json", "project/amazonq/mcp.json">>
    /\ ~results[2].ok

\* C14: a destination whose suffix is neither .json nor .toml is reported as
\* failed and nothing is written to it.
C14_UnsupportedFormatRejected ==
    \A i \in 1..Len(results) :
        Suffix(results[i].path) \notin {".json", ".toml"}
            => ~results[i].ok /\ files[results[i].path] = before[results[i].path]

\* ------------------------------------------------ claims on the selection store
\* C15: load_selections raises nothing and returns the empty set unless the
\* file holds a list of names under "selected_servers": an install, which
\* starts only on a non-empty loaded set, starts only on such a file and with
\* the names of its list.
C15_LoadNeverFails ==
    (op = "install" /\ queue # <<>>) =>
        /\ selections[selected_llm].shape = "list"
        /\ selected_servers = selections[selected_llm].items

\* C16: what is loaded for a target is the set most recently saved for that
\* target, whatever was saved for other targets since: the selection a launch
\* renders with is the one last saved while its LLM was the selected one.
C16_SavePerTarget ==
    pc = "launched" => selected_mcp_servers = saved[os_mode]

\* C17: every document written to a destination, in JSON or in TOML, by the
\* deploy to the registered locations or by the install into the project,
\* ends with a newline.
C17_EndsWithNewline ==
    \A path \in Written : files[path].nl

C20_TomlKeepsOtherSections ==
    \A path \in Written :
        IsTomlPath(path) /\ before[path].fmt = "toml" =>
            LET old == before[path].lines
                tables(i) == {j \in 1..i : old[j].kind = "table"}
                last(i) == CHOOSE j \in tables(i) : \A k \in tables(i) : k <= j
                inMcp(i) == tables(i) # {} /\ StartsMcpTable(old[last(i)])
            IN  \A i \in 1..Len(old) :
                    NonBlank(old[i]) /\ ~inMcp(i) => old[i] \in Range(files[path].lines)

\* C19: when the process is stopped during the write of a destination, the
\* destination holds its old content, complete, or its new content, complete,
\* and never a text cut short.
C19_CrashSafe ==
    /\ op = "deploy_interrupted" =>
          files[Head(queue)] \in
              {before[Head(queue)],
               DeployOne(Head(queue), before[Head(queue)], new_servers).file}
    /\ op = "install_interrupted" =>
          files[Head(queue)] \in
              {before[Head(queue)],
               InstallOne(Head(queue), before[Head(queue)], new_servers).file}

\* C21: whenever the operator confirms a selection for the selected CLI, the
\* empty selection included, the step that persists it also starts the deploy
\* of that selection to every destination path of the CLI, with no
\* destination written yet.
C21_PersistedThenDeployed ==
    [][selections' # selections =>
          /\ op' = "deploy"
          /\ queue' = DeployPaths(selected_llm)
          /\ results' = <<>>
          /\ selected_servers' = LoadSelections(selections'[selected_llm])
          /\ files' = files]_vars

\* C22: a block taken from the catalog is written with exactly the catalog's
\* definition, its "type" field included, in every JSON destination a deploy
\* or an install wrote.
C22_CatalogBlockExact ==
    \A path \in Written :
        ~IsTomlPath(path) =>
            \A name \in selected_servers \cap CatalogNames :
                Has(ContainerOf(files[path]), name) =>
                    Get(ContainerOf(files[path]), name) = Get(MCP_SERVERS_DB, name)

\* C23: in main3's TOML parser a sub-table header [mcp_servers.name.env] met
\* while the block name is open is appended to that block's lines and creates
\* no block name of its own.
C23_SubTableSameBlock ==
    (pc = "loaded3" /\ llm3.format = "toml") =>
        LET lines == source.lines
            starts == {i \in 1..Len(lines) : StartsBlock3(lines[i])}
            open(i) == \E j \in 1..(i - 1) :
                          /\ j \in starts
                          /\ lines[j].sub = ""
                          /\ lines[j].name = lines[i].name
                          /\ \A k \in (j + 1)..(i - 1) :
                                k \in starts => lines[k].name = lines[i].name
        IN  \A i \in starts :
                (lines[i].sub # "" /\ open(i)) =>
                    /\ Has(llm3.servers, lines[i].name)
                    /\ lines[i] \in Range(Get(llm3.servers, lines[i].name))
                    /\ (\A k \in starts : lines[k] = lines[i] => open(k))
                          => ~Has(llm3.servers, BlockName3(lines[i]))

\* C24: after llm.py has parsed any source, and in the filtered template a
\* launch builds from it for any selection, server_order holds no name twice
\* and every name of server_order is a key of server_blocks.
C24_OrderWithinBlocks ==
    Loaded =>
        LET filtered == FilteredTemplate(template, selected_mcp_servers)
        IN  /\ NoDup(template.server_order)
            /\ Range(template.server_order) \subseteq DOMAIN template.server_blocks
            /\ NoDup(filtered.server_order)
            /\ Range(filtered.server_order) \subseteq DOMAIN filtered.server_blocks

\* A TOML source in which block a is met again after block b has been
\* launched with a selection that names a server the template lacks.
C24_Witness ==
    /\ pc = "launched"
    /\ template.format = "toml"
    /\ \E i, j, k \in 1..Len(source.lines) :
          /\ i < j /\ j < k
          /\ StartsServerBlock(source.lines[i], os_mode)
          /\ StartsServerBlock(source.lines[j], os_mode)
          /\ StartsServerBlock(source.lines[k], os_mode)
          /\ source.lines[i].name = source.lines[k].name
          /\ source.lines[i].name # source.lines[j].name
    /\ Range(selected_mcp_servers) \ Range(template.server_order) # {}
    /\ Range(selected_mcp_servers) \cap Range(template.server_order) # {}

\* C25: in a rendered TOML document the header of a block that follows the
\* lines of another block is preceded by exactly one blank line, also when
\* the stored lines of the block before it end with several blank lines; the
\* document has no trailing blank line and ends with one newline.
C25_TomlLayout ==
    (pc = "launched" /\ document.fmt = "toml") =>
        LET out == document.lines
            heads == {k \in 1..Len(out) : out[k].kind = "table"}
            boundary(k) == /\ k \in heads
                           /\ \E j \in heads : j < k
                           /\ \A j \in heads :
                                 (j < k /\ \A m \in heads : m < k => m <= j)
                                     => out[j].name # out[k].name
        IN  /\ \A k \in 1..Len(out) :
                  boundary(k) => /\ ~NonBlank(out[k - 1])
                                 /\ NonBlank(out[k - 2])
            /\ out # <<Blank>> => NonBlank(out[Len(out)])
            /\ document.nl

\* C26: a destination whose existing content could not be parsed holds, after
\* the deploy or the install has visited it, exactly the content it had
\* before the operation.
C26_UnparsableUntouched ==
    \A i \in 1..Len(results) :
        before[results[i].path].fmt = "garbage" =>
            files[results[i].path] = before[results[i].path]

\* C27: when deploy_config_to_app_locations has run a second time in a row
\* with the selection and the CLI of the first run, every destination, JSON
\* and TOML, holds the content it held after the first run.
C27_DeployIdempotent ==
    (again /\ op = "deploy") => \A path \in Paths : files[path] = before[path]

\* The second of two such deploys of two servers has finished on a TOML
\* destination that holds lines before its [mcp_servers.*] tables.
C27_Witness ==
    /\ again
    /\ Done
    /\ selected_servers = {"a", "b"}
    /\ \E path \in Range(targets) :
          /\ IsTomlPath(path)
          /\ Len(ExtractTomlPrefixBeforeMcp(files[path])) > 0
          /\ Len(files[path].lines) > Len(ExtractTomlPrefixBeforeMcp(files[path]))

\* ------------------------------------------------- claims on main2_fixed.py
\* C28: leaving the selector by the quit command or by the iteration limit
\* changes nothing: the saved selections, the template files, the destination
\* files and the selected CLI of the config are as they were.
C28_QuitChangesNothing ==
    [][(selector.open /\ selector'.left \in {"quit", "limit"}) =>
          /\ selections' = selections
          /\ servers_dir' = servers_dir
          /\ files' = files
          /\ selected_llm' = selected_llm]_vars

\* C29: apply_servers_to_cli for one CLI changes the template file of no other
\* CLI.
C29_OnlyOwnTemplate ==
    [][\A c \in CliFilenames :
          servers_dir'[c] # servers_dir[c] => c = selector.cli]_vars

\* C30: while the selector is open scroll_pos is never negative and every
\* marked index lies in 0..len(servers_list)-1.
C30_SelectorInRange ==
    selector.open =>
        /\ selector.scroll_pos >= 0
        /\ selector.selected_indices \subseteq 0..(Len(servers_list) - 1)

====
